---- MODULE Spec2Model ----
(***************************************************************************)
(* Model of slack_history.py: the paginated history fetch (getHistory),    *)
(* the three exporters (getChannels, getPrivateChannels,                   *)
(* getDirectMessages) and the script body that drives them.                *)
(*                                                                         *)
(* A message is identified by its timestamp 'ts' (a positive integer       *)
(* here; the program only ever reads message['ts']).  The remote is the    *)
(* chat service reached through the client object; it is outside the       *)
(* program and is modelled by the three behaviours named in RemoteModes.   *)
(* File writes follow the Python 2 semantics the script was written for    *)
(* (an encoded str written to a file opened with 'w').                     *)
(***************************************************************************)
EXTENDS Integers, Sequences, FiniteSets, TLC

VARIABLES
  args,           \* parsed flags: dryRun, skipChannels, skipPrivateChannels, skipDirectMessages
  team,           \* what the remote holds: conversations of each kind, listed users
  pc,             \* position of the script
  kind,           \* exporter being run: "channels", "groups", "im" ("direct": getHistory called on its own)
  idx,            \* index of the conversation being exported in team[kind]
  log,            \* every remote call and file write, in the order issued
  dirs,           \* directories created
  files,          \* files on disk: set of [dir, name, info, messages]
  userIdNameMap,  \* ids of the users getUserMap found
  raised,         \* the exception that ended the run, "none" if none
  remote,         \* how the remote pages a history
  conv,           \* timestamps of the messages the remote holds for channelId
  pageSize,       \* getHistory's pageSize
  messages,       \* getHistory's messages
  lastTimestamp,  \* getHistory's lastTimestamp
  requests,       \* the 'latest' argument of each history request of this getHistory call
  pages           \* the response bodies received by this getHistory call

vars == <<args, team, pc, kind, idx, log, dirs, files, userIdNameMap, raised,
          remote, conv, pageSize, messages, lastTimestamp, requests, pages>>

histVars == <<remote, conv, pageSize, messages, lastTimestamp, requests, pages>>

----------------------------------------------------------------------------
(* Bounds of the model *)

MaxTs == 3
MaxPage == 3
AnyRequests == 2
MaxConvs == 2

(* Program constants *)

DefaultPageSize == 100
Oldest == 0

None == -1

RequestCap == MaxTs + 3

----------------------------------------------------------------------------
(* The remote's history endpoint *)

RemoteModes == {"strict", "inclusive", "any"}

Min(a, b) == IF a < b THEN a ELSE b

\* the largest timestamp any modelled conversation holds
TsTop == IF MaxTs > DefaultPageSize + 1 THEN MaxTs ELSE DefaultPageSize + 1

\* the messages of S, newest (largest ts) first
NewestFirst(S) ==
  LET Held(t) == t \in S
  IN SelectSeq([i \in 1..TsTop |-> TsTop + 1 - i], Held)

Take(s, n) == SubSeq(s, 1, Min(n, Len(s)))

\* messages the request {latest, oldest} ranges over
InRange(mode, c, latest, oldest) ==
  {t \in c : /\ t > oldest
             /\ \/ latest = None
                \/ IF mode = "inclusive" THEN t <= latest ELSE t < latest}

\* the page a contract-abiding remote answers with
ContractResponse(mode, c, latest, oldest, count) ==
  LET all == NewestFirst(InRange(mode, c, latest, oldest))
  IN [messages |-> Take(all, count), has_more |-> Len(all) > count]

\* every list of at most count distinct messages of the conversation, in any order
AnyPages(c, count) ==
  {s \in UNION {[1..n -> c] : n \in 0..Min(count, Cardinality(c))} :
     \A i, j \in DOMAIN s : i # j => s[i] # s[j]}

HistoryResponses(mode, c, latest, oldest, count) ==
  IF mode = "any"
  THEN {[messages |-> p, has_more |-> h] : p \in AnyPages(c, count), h \in BOOLEAN}
  ELSE {ContractResponse(mode, c, latest, oldest, count)}

----------------------------------------------------------------------------
(* getHistory *)

InitialCursor == None

ReplaceByPage(msgs, page) == page

Prepend(msgs, page) == page \o msgs

Extend(msgs, page) == msgs \o page

ContinueWhilePageNonEmpty(response) == response.messages # <<>>

ContinueAlways(response) == TRUE

ShouldContinue(response) == response.has_more = TRUE

FirstOfAccumulated(msgs) == msgs[1]

NextCursor(msgs) == msgs[Len(msgs)]

WriteWithoutInfo(k) == "write"

\* where the caller resumes once getHistory returns
AfterHistory(k) == IF k = "im" THEN "write" ELSE "info"

Resume(p) == p

\* no call is wrapped in try/except: an exception raised at position p ends the run
Propagate(p) == "aborted"

CallRecord(op, k, id, latest, ok) ==
  [op |-> op, kind |-> k, id |-> id, latest |-> latest, ok |-> ok]

CurrentId == IF kind = "direct" THEN 0 ELSE team[kind][idx].id

\* one iteration of the while loop
HistoryPage ==
  /\ pc = "history"
  /\ Len(requests) < (IF remote = "any" THEN AnyRequests ELSE RequestCap)
  /\ \E response \in HistoryResponses(remote, conv, lastTimestamp, Oldest, pageSize) :
       LET extended == Extend(messages, response.messages) IN
       /\ requests' = Append(requests, lastTimestamp)
       /\ pages' = Append(pages, response)
       /\ log' = Append(log, CallRecord("history", kind, CurrentId, lastTimestamp, TRUE))
       /\ messages' = extended
       /\ IF ShouldContinue(response)
          THEN IF extended = <<>>
               THEN /\ raised' = "IndexError"
                    /\ pc' = "aborted"
                    /\ UNCHANGED lastTimestamp
               ELSE /\ lastTimestamp' = NextCursor(extended)
                    /\ UNCHANGED <<pc, raised>>
          ELSE /\ pc' = (IF kind = "direct" THEN "returned" ELSE AfterHistory(kind))
               /\ UNCHANGED <<lastTimestamp, raised>>
  /\ UNCHANGED <<args, team, kind, idx, dirs, files, userIdNameMap, remote, conv, pageSize>>

----------------------------------------------------------------------------
(* The script body and the exporters *)

Kinds == <<"channels", "groups", "im">>

ParentDir(k) ==
  IF k = "channels" THEN "channels"
  ELSE IF k = "groups" THEN "private_channels"
  ELSE "direct_messages"

CrossedSkipFlags(k, a) ==
  IF k = "channels" THEN ~a.skipPrivateChannels
  ELSE IF k = "groups" THEN ~a.skipChannels
  ELSE ~a.skipDirectMessages

RunsExporter(k, a) ==
  IF k = "channels" THEN ~a.skipChannels
  ELSE IF k = "groups" THEN ~a.skipPrivateChannels
  ELSE ~a.skipDirectMessages

ExportsAlways(dry) == TRUE

ExportsHistory(dry) == ~dry

WritesMetadata(dry) == ~dry

\* file name of a conversation: channel['name'], group['name'], or the user's
\* name with the "(name unknown)" fallback
FileName(k, c, known) ==
  IF k = "im" THEN [name |-> c.id, unknown |-> c.id \notin known]
  ELSE [name |-> c.id, unknown |-> FALSE]

WriteFile(fs, dir, name, info, msgs) ==
  {f \in fs : ~(f.dir = dir /\ f.name = name)}
    \cup {[dir |-> dir, name |-> name, info |-> info, messages |-> msgs]}

Mkdir(ds, d) == ds \cup {d}

\* messages = getHistory(slack.<kind>, conversation['id'])
StartHistory(k, i) ==
  /\ pc' = "history"
  /\ kind' = k
  /\ idx' = i
  /\ conv' = 1..team[k][i].n
  /\ messages' = <<>>
  /\ lastTimestamp' = InitialCursor
  /\ requests' = <<>>
  /\ pages' = <<>>
  /\ UNCHANGED <<remote, pageSize>>

\* the exporter for kind k returns
LeaveExporter(k) ==
  /\ IF k = "channels" THEN pc' = "list" /\ kind' = "groups"
     ELSE IF k = "groups" THEN pc' = "list" /\ kind' = "im"
     ELSE pc' = "done" /\ kind' = k
  /\ idx' = 0
  /\ UNCHANGED histVars

\* the for loop moves to the next conversation, or ends
NextConversation ==
  IF idx < Len(team[kind]) THEN StartHistory(kind, idx + 1) ELSE LeaveExporter(kind)

doTestAuth ==
  /\ pc = "auth"
  /\ log' = Append(log, CallRecord("auth.test", "auth", 0, None, TRUE))
  /\ pc' = "users"
  /\ UNCHANGED <<args, team, kind, idx, dirs, files, userIdNameMap, raised, histVars>>

getUserMap ==
  /\ pc = "users"
  /\ log' = Append(log, CallRecord("list", "users", 0, None, TRUE))
  /\ userIdNameMap' = team.users
  /\ pc' = "meta"
  /\ UNCHANGED <<args, team, kind, idx, dirs, files, raised, histVars>>

WriteMetadata ==
  /\ pc = "meta"
  /\ IF WritesMetadata(args.dryRun)
     THEN /\ files' = WriteFile(files, ".", [name |-> 0, unknown |-> FALSE], 0, <<>>)
          /\ log' = Append(log, CallRecord("write", "metadata", 0, None, TRUE))
     ELSE UNCHANGED <<files, log>>
  /\ pc' = "list"
  /\ kind' = "channels"
  /\ UNCHANGED <<args, team, idx, dirs, userIdNameMap, raised, histVars>>

SkipExporter ==
  /\ pc = "list"
  /\ ~RunsExporter(kind, args)
  /\ LeaveExporter(kind)
  /\ UNCHANGED <<args, team, log, dirs, files, userIdNameMap, raised>>

\* getChannels / getPrivateChannels / getDirectMessages up to the first history request
ListConversations ==
  /\ pc = "list"
  /\ RunsExporter(kind, args)
  /\ log' = Append(log, CallRecord("list", kind, 0, None, TRUE))
  /\ IF ExportsHistory(args.dryRun)
     THEN /\ dirs' = Mkdir(dirs, ParentDir(kind))
          /\ IF Len(team[kind]) > 0 THEN StartHistory(kind, 1) ELSE LeaveExporter(kind)
     ELSE /\ UNCHANGED dirs
          /\ LeaveExporter(kind)
  /\ UNCHANGED <<args, team, files, userIdNameMap, raised>>

\* channelInfo = slack.<kind>.info(id), then the file is opened and written
FetchInfoAndWrite ==
  /\ pc = "info"
  /\ LET c == team[kind][idx] IN
     /\ log' = log \o <<CallRecord("info", kind, c.id, None, TRUE),
                        CallRecord("write", kind, c.id, None, TRUE)>>
     /\ files' = WriteFile(files, ParentDir(kind), FileName(kind, c, userIdNameMap),
                           c.id, messages)
  /\ NextConversation
  /\ UNCHANGED <<args, team, dirs, userIdNameMap, raised>>

\* direct messages: channelInfo is built locally, then the file is opened and written
WriteDirectMessages ==
  /\ pc = "write"
  /\ LET c == team[kind][idx] IN
     /\ log' = Append(log, CallRecord("write", kind, c.id, None, TRUE))
     /\ files' = WriteFile(files, ParentDir(kind), FileName(kind, c, userIdNameMap),
                           c.id, messages)
  /\ NextConversation
  /\ UNCHANGED <<args, team, dirs, userIdNameMap, raised>>

\* the remote call the script is about to issue at position pc
PendingCall ==
  IF pc = "auth" THEN CallRecord("auth.test", "auth", 0, None, FALSE)
  ELSE IF pc = "users" THEN CallRecord("list", "users", 0, None, FALSE)
  ELSE IF pc = "list" THEN CallRecord("list", kind, 0, None, FALSE)
  ELSE IF pc = "info" THEN CallRecord("info", kind, CurrentId, None, FALSE)
  ELSE CallRecord("history", kind, CurrentId, lastTimestamp, FALSE)

\* a remote call raises (authentication, network, rate limit)
RemoteFailure ==
  /\ \/ pc \in {"auth", "users", "info", "history"}
     \/ pc = "list" /\ RunsExporter(kind, args)
  /\ raised = "none"
  /\ Len(requests) < RequestCap
  /\ log' = Append(log, PendingCall)
  /\ requests' = IF pc = "history" THEN Append(requests, lastTimestamp) ELSE requests
  /\ raised' = "remote"
  /\ pc' = Propagate(pc)
  /\ UNCHANGED <<args, team, kind, idx, dirs, files, userIdNameMap,
                 remote, conv, pageSize, messages, lastTimestamp, pages>>

----------------------------------------------------------------------------
(* Specifications *)

\* conversation i of a kind: more than one page of messages when i is in long,
\* otherwise i - 1 messages
Listing(n, long) ==
  [i \in 1..n |-> [id |-> i, n |-> IF i \in long THEN DefaultPageSize + 1 ELSE i - 1]]

\* the script after argument parsing, run against a remote that pages as Slack does
Init ==
  /\ args \in [dryRun : BOOLEAN, skipChannels : BOOLEAN,
               skipPrivateChannels : BOOLEAN, skipDirectMessages : BOOLEAN]
  /\ \E ch, gr, im \in 0..MaxConvs, long \in SUBSET (1..MaxConvs),
        us \in {{}, 1..MaxConvs} :
       team = [channels |-> Listing(ch, long), groups |-> Listing(gr, long),
               im |-> Listing(im, long), users |-> us]
  /\ pc = "auth"
  /\ kind = "channels"
  /\ idx = 0
  /\ log = <<>>
  /\ dirs = {}
  /\ files = {}
  /\ userIdNameMap = {}
  /\ raised = "none"
  /\ remote = "strict"
  /\ conv = {}
  /\ pageSize = DefaultPageSize
  /\ messages = <<>>
  /\ lastTimestamp = None
  /\ requests = <<>>
  /\ pages = <<>>

Next ==
  \/ doTestAuth
  \/ getUserMap
  \/ WriteMetadata
  \/ SkipExporter
  \/ ListConversations
  \/ HistoryPage
  \/ FetchInfoAndWrite
  \/ WriteDirectMessages
  \/ RemoteFailure

Spec == Init /\ [][Next]_vars

\* getHistory called on its own, just after lines 42-43
HistInit ==
  /\ args = [dryRun |-> FALSE, skipChannels |-> FALSE,
             skipPrivateChannels |-> FALSE, skipDirectMessages |-> FALSE]
  /\ team = [channels |-> <<>>, groups |-> <<>>, im |-> <<>>, users |-> {}]
  /\ pc = "history"
  /\ kind = "direct"
  /\ idx = 0
  /\ log = <<>>
  /\ dirs = {}
  /\ files = {}
  /\ userIdNameMap = {}
  /\ raised = "none"
  /\ remote \in RemoteModes
  /\ conv \in SUBSET (1..MaxTs)
  /\ pageSize \in 1..MaxPage
  /\ messages = <<>>
  /\ lastTimestamp = InitialCursor
  /\ requests = <<>>
  /\ pages = <<>>

HistNext == HistoryPage \/ RemoteFailure

HistSpec == HistInit /\ [][HistNext]_vars

\* getHistory against a remote that keeps to a paging contract
ContractInit == HistInit /\ remote \in {"strict", "inclusive"}

\* the loop keeps iterating: a request that is issued is answered or raises
FairHistSpec == ContractInit /\ [][HistNext]_vars /\ WF_vars(HistNext)

----------------------------------------------------------------------------
(* Vocabulary of the properties *)

N == Cardinality(conv)

CeilDiv(a, b) == (a + b - 1) \div b

Range(s) == {s[i] : i \in DOMAIN s}

StrictlyDecreasing(s) == \A i \in 1..(Len(s) - 1) : s[i] > s[i + 1]

NonIncreasing(s) == \A i \in 1..(Len(s) - 1) : s[i] >= s[i + 1]

Occurrences(s, t) == Cardinality({i \in DOMAIN s : s[i] = t})

RECURSIVE Received(_, _)
\* the messages of the first n pages, in the order received
Received(ps, n) == IF n = 0 THEN <<>> ELSE Received(ps, n - 1) \o ps[n].messages

Returned == pc = "returned"

----------------------------------------------------------------------------
(* Properties of getHistory, checked under HistSpec *)

\* C1 (as amended): against a remote that answers a request with the up-to-P
\* newest messages strictly older than the cursor, getHistory returns a sequence
\* of length N holding every message exactly once, newest first.  Against a
\* remote that answers with the messages at or before the cursor, a returned
\* sequence holds every message, newest first, with the message at each page
\* boundary twice: its length is N plus the number of requests minus one.
C1_CompleteHistory ==
  Returned =>
    /\ raised = "none"
    /\ remote \in {"strict", "inclusive"} => Range(messages) = conv
    /\ remote = "strict" =>
         /\ Len(messages) = N
         /\ StrictlyDecreasing(messages)
         /\ \A t \in conv : Occurrences(messages, t) = 1
    /\ remote = "inclusive" =>
         /\ Len(messages) = N + Len(requests) - 1
         /\ NonIncreasing(messages)
         /\ \A i \in 2..Len(pages) :
              pages[i].messages[1] = Received(pages, i - 1)[Len(Received(pages, i - 1))]

C1_Witness ==
  /\ Returned
  /\ remote = "strict"
  /\ N >= 3
  /\ pageSize = 2
  /\ Len(requests) = 2
  /\ Len(messages) = N

\* C1 as stated: against the remote that answers with the messages at or
\* before the cursor, the result has length N and holds every message exactly once.
C1_AsStated ==
  (Returned /\ remote = "inclusive") =>
    /\ Len(messages) = N
    /\ StrictlyDecreasing(messages)
    /\ \A t \in conv : Occurrences(messages, t) = 1

\* C2 (as amended): against the remote that pages strictly below the cursor,
\* getHistory issues exactly ceil(N/P) requests when N >= 1, and exactly one
\* request when N = 0.
C2_RequestCount ==
  (Returned /\ remote = "strict") =>
    Len(requests) = (IF N = 0 THEN 1 ELSE CeilDiv(N, pageSize))

C2_Witness ==
  /\ Returned
  /\ remote = "strict"
  /\ N = 3
  /\ pageSize = 2
  /\ Len(requests) = 2

\* C2 as stated: exactly ceil(N/P) requests for every N >= 0.
C2_AsStated ==
  (Returned /\ remote = "strict") => Len(requests) = CeilDiv(N, pageSize)

\* C3: when the first response has has_more = false, getHistory has issued
\* exactly one request and returns exactly that page's messages, whatever the
\* page holds; a conversation without messages gives one request and an empty
\* result.
C3_FirstPageLast ==
  /\ (Len(pages) >= 1 /\ pages[1].has_more = FALSE) =>
       /\ Returned
       /\ raised = "none"
       /\ Len(requests) = 1
       /\ Len(pages) = 1
       /\ messages = pages[1].messages
  /\ (conv = {} /\ remote \in {"strict", "inclusive"} /\ Len(pages) >= 1) =>
       /\ Returned
       /\ Len(requests) = 1
       /\ messages = <<>>

C3_Witness ==
  /\ Returned
  /\ remote = "any"
  /\ Len(requests) = 1
  /\ pages[1].has_more = FALSE
  /\ Len(messages) = 2
  /\ N = 3

\* C7: the first request carries no cursor; every later request carries the
\* timestamp of the last message accumulated before it; the result is the
\* pages received, concatenated in order; and whenever the accumulated
\* sequence is newest-first the cursors never move to a newer timestamp.
C7_CursorAndOrder ==
  /\ \A i \in DOMAIN requests :
       IF i = 1 THEN requests[i] = None
       ELSE /\ Received(pages, i - 1) # <<>>
            /\ requests[i] = Received(pages, i - 1)[Len(Received(pages, i - 1))]
  /\ messages = Received(pages, Len(pages))
  /\ NonIncreasing(messages) =>
       \A i \in 2..(Len(requests) - 1) : requests[i + 1] <= requests[i]

C7_Witness ==
  /\ Returned
  /\ remote = "any"
  /\ Len(requests) = 2
  /\ Len(pages[1].messages) = 2
  /\ pages[1].messages[1] < pages[1].messages[2]
  /\ requests[2] = pages[1].messages[2]
  /\ pages[2].messages # <<>>

\* C10 as stated: getHistory never fails on its own, and every response with
\* has_more = true changes the cursor sent on the next request.
C10_AsStated ==
  /\ raised # "IndexError"
  /\ \A i \in 1..(Len(requests) - 1) : requests[i + 1] # requests[i]

----------------------------------------------------------------------------
(* Termination of getHistory, checked under FairHistSpec *)

\* C9 (as amended): when no request fails, getHistory returns for every finite
\* conversation and every page size P >= 1 against the remote that pages
\* strictly below the cursor, and against the remote that pages at or before
\* the cursor when P >= 2 or the conversation holds at most one message.
C9_Terminates ==
  (\/ remote = "strict"
   \/ remote = "inclusive" /\ (pageSize >= 2 \/ N <= 1))
    => <>(Returned \/ raised = "remote")

C9_Witness ==
  /\ Returned
  /\ remote = "inclusive"
  /\ pageSize = 2
  /\ N >= 3
  /\ Len(requests) = N - 1

\* C9 as stated: against the remote that pages at or before the cursor,
\* getHistory returns for every P >= 1.  A contract remote's answer is a
\* function of the cursor alone, so the loop returns exactly when it never
\* sends the same cursor twice: that is the form stated here.
C9_AsStated ==
  remote \in {"strict", "inclusive"} =>
    \A i, j \in DOMAIN requests : i # j => requests[i] # requests[j]

----------------------------------------------------------------------------
(* Properties of a run of the script, checked under Spec *)

KindSet == {"channels", "groups", "im"}

SkipFlag(k) ==
  IF k = "channels" THEN args.skipChannels
  ELSE IF k = "groups" THEN args.skipPrivateChannels
  ELSE args.skipDirectMessages

Issued(op, k) == \E i \in DOMAIN log : log[i].op = op /\ log[i].kind = k

IssuedFor(op, k, id) ==
  \E i \in DOMAIN log : log[i].op = op /\ log[i].kind = k /\ log[i].id = id

\* log entries i and j belong to the same conversation
SameConversation(i, j) ==
  /\ log[i].kind \in KindSet
  /\ log[i].op # "list"
  /\ log[j].op # "list"
  /\ log[i].kind = log[j].kind
  /\ log[i].id = log[j].id

ListsIssued ==
  /\ Issued("auth.test", "auth")
  /\ Issued("list", "users")
  /\ \A k \in KindSet : ~SkipFlag(k) => Issued("list", k)

\* C4 (as amended): in dry-run mode the run issues the identity check, the
\* user list and the list call of every exporter that is not skipped, and
\* nothing else: no info call, no history call, no directory, no file.
C4_DryRun ==
  args.dryRun =>
    /\ \A i \in DOMAIN log : log[i].op \in {"auth.test", "list"}
    /\ dirs = {}
    /\ files = {}
    /\ pc = "done" => ListsIssued

C4_Witness ==
  /\ args.dryRun
  /\ pc = "done"
  /\ \A k \in KindSet : ~SkipFlag(k) /\ Len(team[k]) >= 2
  /\ Len(log) = 5

\* C4 as stated: in dry-run mode the run issues the list and the info calls,
\* and no history call, directory or file.
C4_AsStated ==
  (args.dryRun /\ pc = "done") =>
    /\ ListsIssued
    /\ \A k \in {"channels", "groups"} :
         ~SkipFlag(k) => \A i \in DOMAIN team[k] : IssuedFor("info", k, team[k][i].id)
    /\ \A i \in DOMAIN log : log[i].op # "history"
    /\ dirs = {}
    /\ files = {}

\* C5: a skip flag suppresses exactly its own exporter: no call of that kind
\* is issued and its directory is never created, while every exporter that is
\* not skipped lists its conversations and, when not dry-run, has created its
\* directory and written every conversation's complete history by the end.
C5_SkipFlags ==
  \A k \in KindSet :
    /\ SkipFlag(k) =>
         /\ \A i \in DOMAIN log : log[i].kind # k
         /\ ParentDir(k) \notin dirs
         /\ \A f \in files : f.dir # ParentDir(k)
    /\ (~SkipFlag(k) /\ pc = "done") =>
         /\ Issued("list", k)
         /\ ~args.dryRun =>
              /\ ParentDir(k) \in dirs
              /\ \A i \in DOMAIN team[k] :
                   \E f \in files :
                     /\ f.dir = ParentDir(k)
                     /\ f.name.name = team[k][i].id
                     /\ Len(f.messages) = team[k][i].n

C5_Witness ==
  /\ args.skipChannels
  /\ args.skipPrivateChannels
  /\ ~args.skipDirectMessages
  /\ ~args.dryRun
  /\ pc = "done"
  /\ \A k \in KindSet : Len(team[k]) >= 2
  /\ dirs = {"direct_messages"}
  /\ Cardinality({f \in files : f.dir = "direct_messages"}) >= 2

HistoryFailedAt(i) == log[i].op = "history" /\ ~log[i].ok

HistoryFailed == \E i \in DOMAIN log : HistoryFailedAt(i)

C6_Aborted ==
  \A i \in DOMAIN log :
    HistoryFailedAt(i) =>
      /\ pc = "aborted"
      /\ raised = "remote"
      /\ i = Len(log)
      /\ ~IssuedFor("write", log[i].kind, log[i].id)
      /\ \A f \in files : ~(f.dir = ParentDir(log[i].kind) /\ f.name.name = log[i].id)

\* C6: once a history request has failed the run is over: the failed request
\* is the last thing the run did (no retry, no further call, no write), no
\* file exists for the conversation being fetched, and the calls made, the
\* files and the directories never change again.
C6_FailurePropagates ==
  /\ [] C6_Aborted
  /\ [][HistoryFailed => UNCHANGED <<log, files, dirs, messages>>]_vars

C6_Witness ==
  /\ HistoryFailed
  /\ kind = "channels"
  /\ idx = 2
  /\ Len(messages) = DefaultPageSize
  /\ Len(requests) = 2
  /\ \E f \in files : f.dir = "channels" /\ f.name.name = 1

\* C8 (as amended): the steps of a conversation are linear in the order
\* list -> history -> info (channels and private channels) -> write: every
\* write comes right after the info call (or, for direct messages, the last
\* history request) of its conversation, every history request of a
\* conversation precedes its info call, the list call of a kind precedes
\* everything done for its conversations, and the calls of one conversation
\* are never interleaved with another's.
C8_LinearOrder ==
  /\ \A w \in DOMAIN log :
       (log[w].op = "write" /\ log[w].kind \in KindSet) =>
         /\ w > 1
         /\ log[w - 1].ok
         /\ SameConversation(w - 1, w)
         /\ log[w - 1].op = (IF log[w].kind = "im" THEN "history" ELSE "info")
         /\ \E h \in 1..(w - 1) : log[h].op = "history" /\ SameConversation(h, w)
  /\ \A i, j \in DOMAIN log :
       (i < j /\ SameConversation(i, j)) =>
         /\ log[i].op # "write"
         /\ log[i].op = "info" => log[j].op = "write"
         /\ \A m \in i..j : SameConversation(i, m)
  /\ \A i \in DOMAIN log :
       (log[i].kind \in KindSet /\ log[i].op # "list") =>
         \E l \in 1..(i - 1) : log[l].op = "list" /\ log[l].kind = log[i].kind

C8_Witness ==
  /\ pc = "done"
  /\ ~args.dryRun
  /\ IssuedFor("write", "channels", 2)
  /\ IssuedFor("write", "groups", 1)
  /\ IssuedFor("write", "im", 1)
  /\ Cardinality({i \in DOMAIN log : log[i].op = "history" /\ log[i].kind = "channels"
                                     /\ log[i].id = 1}) = 2

\* C8 as stated: for every channel and private channel the info call precedes
\* the first history request of that conversation.
C8_AsStated ==
  \A i, h \in DOMAIN log :
    (log[i].op = "info" /\ log[h].op = "history" /\ SameConversation(i, h)) => i < h

====
